---- MODULE Spec2Model ----
(***************************************************************************)
(* A-Star Photo Editor: the image manipulation pipeline (manipulator.py),  *)
(* the application object that drives it (main.py), the editor widgets     *)
(* that write its parameters (menu.py, panel.py) and the color helpers     *)
(* (hex_tools.py).                                                         *)
(*                                                                         *)
(* Images are Pillow objects.  An image value is a record                  *)
(*   base    the file whose decoded pixels it derives from                 *)
(*   mode    Pillow pixel format: "RGB", "RGBA", "P" (palette), "L" (gray) *)
(*   width, height                                                         *)
(*   format  the file format of an image read from a file, "" for an image *)
(*           produced by an operation (Pillow: format is None)             *)
(*   px      the pixel content, as the sequence of Pillow operations that  *)
(*           produced it from the decoded file (an uninterpreted term:     *)
(*           equal terms are equal pixels)                                 *)
(* Python object identity matters (thumbnail() works in place), so the     *)
(* model records whether App.image is the same object as App.original.     *)
(***************************************************************************)
EXTENDS Integers, Sequences, FiniteSets, TLC

VARIABLES
    ui,                 \* which widgets are on screen, and whether App.editor_menu is assigned
    original,           \* App.original
    image,              \* App.image (value of the object it refers to)
    image_is_original,  \* Python: App.image is App.original
    tk_image,           \* the image drawn on the canvas (App.tk_image)
    params,             \* the 14 tkinter variables of init_parameters
    last_run,           \* record of the most recent run of manipulate_image
    last_op,            \* the most recent handler: its name, the exception it
                        \* ended with, and the arguments of its Image.save call
    imported,           \* history: the image as it was decoded at import
    manip,              \* an ImageManipulator driven directly, stage by stage
    last_call,          \* the most recent stage call made on manip
    clamp_args,         \* arguments of a clamp() call
    clamp_result,       \* its result
    hex_args,           \* arguments of a rgb_to_hex() or colorscale() call
    hex_result,         \* its outcome
    sepia,              \* a gray pixel and what sepia_filter() makes of it
    extracted,          \* the colors colorgram extracts from the image file
    swatches            \* ColorsPanel: hex_colors and the buttons drawn from it

vars == <<ui, original, image, image_is_original, tk_image, params, last_run,
          last_op, imported, manip, last_call, clamp_args, clamp_result,
          hex_args, hex_result, sepia, extracted, swatches>>

app_vars == <<ui, original, image, image_is_original, tk_image, params,
              last_run, last_op, imported>>
stage_vars == <<manip, last_call>>
clamp_vars == <<clamp_args, clamp_result>>
hex_vars == <<hex_args, hex_result>>
color_vars == <<hex_vars, sepia, extracted, swatches>>

-----------------------------------------------------------------------------
(* Bounds of the model *)

\* at most this many parameters away from their default at the same time
MaxChanged == 2
\* at most this many operations applied to the directly driven manipulator
MaxOps == 2

-----------------------------------------------------------------------------
(* settings.py *)

ROTATE_DEFAULT == 0
ZOOM_DEFAULT == 0
FLIP_OPTIONS == <<"None", "X", "Y", "Both">>
BLUR_DEFAULT == 0
CONTRAST_DEFAULT == 0
BALANCE_DEFAULT == 0
EFFECT_OPTIONS == <<"None", "Emboss", "Find edges", "Contour", "Edge enhance">>
BRIGHTNESS_DEFAULT == 1
VIBRANCE_DEFAULT == 1
HUE_DEFAULT == 0
GRAYSCALE_DEFAULT == FALSE
SEPIA_DEFAULT == FALSE
FOUR_COLOR_DEFAULT == FALSE
INVERT_DEFAULT == FALSE

Range(s) == {s[i] : i \in 1..Len(s)}

-----------------------------------------------------------------------------
(* Pillow images *)

NoImage == [base |-> "", mode |-> "", width |-> 0, height |-> 0,
            format |-> "", px |-> <<>>]

\* the files the user can open: a JPEG photo, a PNG with an alpha channel,
\* a palette-indexed GIF
Files ==
    { [base |-> "photo.jpg", mode |-> "RGB",  width |-> 4, height |-> 3,
       format |-> "JPEG", px |-> <<>>],
      [base |-> "icon.png",  mode |-> "RGBA", width |-> 4, height |-> 4,
       format |-> "PNG",  px |-> <<>>],
      [base |-> "anim.gif",  mode |-> "P",    width |-> 3, height |-> 4,
       format |-> "GIF",  px |-> <<>>] }

Op(name, s, n) == [op |-> name, s |-> s, n |-> n]

\* a new image object computed from img: same size and mode unless stated
derive(img, op) == [img EXCEPT !.format = "", !.px = Append(@, op)]

\* Image.copy()
copy(img) == [img EXCEPT !.format = ""]

\* Image.convert(mode): a new image; expanding a palette to RGB keeps the
\* pixels, any other conversion changes them
convert(img, mode) ==
    IF img.mode = mode THEN copy(img)
    ELSE IF img.mode = "P" /\ mode = "RGB"
         THEN [img EXCEPT !.mode = mode, !.format = ""]
         ELSE [derive(img, Op("convert", mode, 0)) EXCEPT !.mode = mode]

\* ImageOps.invert is defined on "L" and "RGB" images only
InvertSupported(img) == img.mode \in {"L", "RGB"}

\* Image.filter and Image.blend (ImageEnhance) reject palette images
Filterable(img) == img.mode # "P"

\* Image.rotate(angle), expand=False: the bounding box is kept
rotate(img, angle) ==
    IF angle % 360 = 0 THEN copy(img) ELSE derive(img, Op("rotate", "", angle))

\* ImageOps.crop(image, border): border pixels removed from the four edges;
\* Image.crop rejects a box whose right/lower edge is before its left/upper
\* (ValueError), and returns an empty image for a box of no width or height
CropFits(img, border) ==
    img.width - 2 * border >= 0 /\ img.height - 2 * border >= 0

crop(img, border) ==
    [derive(img, Op("crop", "", border)) EXCEPT
        !.width = img.width - 2 * border, !.height = img.height - 2 * border]

\* ImageEnhance.<kind>(image).enhance(factor) is Image.blend(degenerate,
\* image, factor), which returns a copy of image at factor 1
enhance(img, kind, factor) ==
    IF factor = 1 THEN copy(img) ELSE derive(img, Op(kind, "", factor))

\* Image.thumbnail(size): the size the image is reduced to, keeping its
\* aspect ratio, or <<0, 0>> when the image already fits the box
Abs(n) == IF n < 0 THEN -n ELSE n
Max(a, b) == IF a >= b THEN a ELSE b
Ceil(a, b) == IF a % b = 0 THEN a \div b ELSE (a \div b) + 1

thumbnail_size(img, x, y) ==
    LET w == img.width
        h == img.height
    IN  IF x >= w /\ y >= h THEN <<0, 0>>
        ELSE IF x * h >= w * y
        THEN \* x = round_aspect(y * aspect), key |aspect - n / y|
             LET fl == (y * w) \div h
                 ce == Ceil(y * w, h)
                 nx == IF Abs(w * y - fl * h) <= Abs(w * y - ce * h) THEN fl ELSE ce
             IN  <<Max(nx, 1), y>>
        ELSE \* y = round_aspect(x / aspect), key 0 if n == 0 else |aspect - x / n|
             LET fl == (x * h) \div w
                 ce == Ceil(x * h, w)
                 ny == IF fl = 0 \/ Abs(w * fl - x * h) * ce <= Abs(w * ce - x * h) * fl
                       THEN fl ELSE ce
             IN  <<x, Max(ny, 1)>>

\* Image.thumbnail(size) works IN PLACE: the object itself is resized
thumbnail(img, size) ==
    LET t == thumbnail_size(img, size[1], size[2])
    IN  IF t = <<0, 0>> \/ t = <<img.width, img.height>> THEN img
        ELSE [img EXCEPT !.width = t[1], !.height = t[2],
                         !.px = Append(@, Op("resize", "", 0))]

\* the JPEG writer accepts "L" and "RGB" (and CMYK) images only
JpegWritable(img) == img.mode \in {"L", "RGB"}

-----------------------------------------------------------------------------
(* image_tools/manipulator.py *)

\* sepia_filter: grayscale, attach the sepia palette, expand to RGB
sepia_filter(img) ==
    [derive(convert(img, "L"), Op("putpalette", "sepia", 0)) EXCEPT !.mode = "RGB"]

\* a method returns normally / stores a new image / raises
ok(self) == [self EXCEPT !.raised = "none"]
assign(self, img) ==
    [self EXCEPT !.used_image = img, !.same_object = FALSE, !.raised = "none"]
raise(self, exc) == [self EXCEPT !.raised = exc]

\* ImageManipulator.__init__
ImageManipulator(image_file) ==
    IF image_file.mode = "P"
    THEN [used_image |-> convert(image_file, "RGB"), same_object |-> FALSE,
          raised |-> "none"]
    ELSE [used_image |-> image_file, same_object |-> TRUE, raised |-> "none"]

rotate_image(self, rotation_angle) ==
    IF rotation_angle # ROTATE_DEFAULT
    THEN assign(self, rotate(self.used_image, rotation_angle))
    ELSE ok(self)

zoom_image(self, zoom_amount) ==
    IF zoom_amount # ZOOM_DEFAULT
    THEN IF CropFits(self.used_image, zoom_amount)
         THEN assign(self, crop(self.used_image, zoom_amount))
         ELSE raise(self, "ValueError")
    ELSE ok(self)

flip_image(self, flip_option) ==
    IF flip_option # "None"
    THEN LET mirror == flip_option \in {"X", "Both"}
             flip == flip_option \in {"Y", "Both"}
             m1 == IF mirror
                   THEN derive(self.used_image, Op("mirror", "", 0))
                   ELSE self.used_image
             m2 == IF flip THEN derive(m1, Op("flip", "", 0)) ELSE m1
         IN  IF mirror \/ flip THEN assign(self, m2) ELSE ok(self)
    ELSE ok(self)

apply_brightness(self, brightness_value) ==
    IF brightness_value # BRIGHTNESS_DEFAULT
    THEN IF Filterable(self.used_image)
         THEN assign(self, enhance(self.used_image, "Brightness", brightness_value))
         ELSE raise(self, "ValueError")
    ELSE ok(self)

apply_vibrance(self, vibrance_value) ==
    IF vibrance_value # VIBRANCE_DEFAULT
    THEN IF Filterable(self.used_image)
         THEN assign(self, enhance(self.used_image, "Color", vibrance_value))
         ELSE raise(self, "ValueError")
    ELSE ok(self)

apply_grayscale(self, grayscale_flag) ==
    IF grayscale_flag
    THEN assign(self, convert(self.used_image, "L"))
    ELSE ok(self)

\* invert_colors with the failure of ImageOps.invert swallowed
invert_colors_swallows(self, invert_flag) ==
    IF invert_flag
    THEN IF InvertSupported(self.used_image)
         THEN assign(self, derive(self.used_image, Op("invert", "", 0)))
         ELSE ok(self)
    ELSE ok(self)

\* any failure of ImageOps.invert is re-raised as OSError, nothing is stored
invert_colors(self, invert_flag) ==
    IF invert_flag
    THEN IF InvertSupported(self.used_image)
         THEN assign(self, derive(self.used_image, Op("invert", "", 0)))
         ELSE raise(self, "OSError")
    ELSE ok(self)

apply_sepia(self, sepia_flag) ==
    IF sepia_flag
    THEN assign(self, sepia_filter(self.used_image))
    ELSE ok(self)

apply_4color_filter(self, four_col_flag) ==
    IF four_col_flag
    THEN assign(self,
            IF self.used_image.mode = "P" THEN copy(self.used_image)
            ELSE [derive(self.used_image, Op("quantize", "ADAPTIVE", 4))
                     EXCEPT !.mode = "P"])
    ELSE ok(self)

blur_image(self, blur_value) ==
    IF blur_value # BLUR_DEFAULT
    THEN IF Filterable(self.used_image)
         THEN assign(self, derive(self.used_image, Op("GaussianBlur", "", blur_value)))
         ELSE raise(self, "ValueError")
    ELSE ok(self)

change_contrast(self, contrast_value) ==
    IF contrast_value # CONTRAST_DEFAULT
    THEN IF Filterable(self.used_image)
         THEN assign(self, derive(self.used_image, Op("UnsharpMask", "", contrast_value)))
         ELSE raise(self, "ValueError")
    ELSE ok(self)

\* change_balance testing against the enhancer's own identity factor 1
change_balance_identity_at_one(self, balance_value) ==
    IF balance_value # 1
    THEN IF Filterable(self.used_image)
         THEN assign(self, enhance(self.used_image, "Color", balance_value))
         ELSE raise(self, "ValueError")
    ELSE ok(self)

change_balance(self, balance_value) ==
    IF balance_value # BALANCE_DEFAULT
    THEN IF Filterable(self.used_image)
         THEN assign(self, enhance(self.used_image, "Color", balance_value))
         ELSE raise(self, "ValueError")
    ELSE ok(self)

apply_effect(self, effect_name) ==
    LET applied_effect ==
            IF effect_name \in {"Emboss", "Find edges", "Contour", "Edge enhance"}
            THEN effect_name ELSE "None"
    IN  IF applied_effect # "None"
        THEN IF Filterable(self.used_image)
             THEN assign(self, derive(self.used_image, Op("filter", applied_effect, 0)))
             ELSE raise(self, "ValueError")
        ELSE ok(self)

\* the Hue stage as the specification describes it (section 4.2, stage 13);
\* the class ImageManipulator defines no such method
change_hue(self, hue_value) ==
    IF hue_value # HUE_DEFAULT
    THEN assign(self, derive(self.used_image, Op("hue", "", hue_value)))
    ELSE ok(self)

\* the methods the class ImageManipulator defines
ImageManipulatorMethods ==
    {"rotate_image", "zoom_image", "flip_image", "apply_brightness",
     "apply_vibrance", "apply_grayscale", "invert_colors", "apply_sepia",
     "apply_4color_filter", "blur_image", "change_contrast", "change_balance",
     "apply_effect"}

\* manipulator.<method>(arg): attribute lookup, then the call
dispatch(self, method, arg) ==
    CASE method = "rotate_image"        -> rotate_image(self, arg)
      [] method = "zoom_image"          -> zoom_image(self, arg)
      [] method = "flip_image"          -> flip_image(self, arg)
      [] method = "apply_brightness"    -> apply_brightness(self, arg)
      [] method = "apply_vibrance"      -> apply_vibrance(self, arg)
      [] method = "apply_grayscale"     -> apply_grayscale(self, arg)
      [] method = "invert_colors"       -> invert_colors(self, arg)
      [] method = "apply_sepia"         -> apply_sepia(self, arg)
      [] method = "apply_4color_filter" -> apply_4color_filter(self, arg)
      [] method = "blur_image"          -> blur_image(self, arg)
      [] method = "change_contrast"     -> change_contrast(self, arg)
      [] method = "change_balance"      -> change_balance(self, arg)
      [] method = "change_hue"          -> change_hue(self, arg)
      [] method = "apply_effect"        -> apply_effect(self, arg)

call_method(self, method, arg) ==
    IF method \in ImageManipulatorMethods
    THEN dispatch(self, method, arg)
    ELSE raise(self, "AttributeError")

-----------------------------------------------------------------------------
(* main.py: the parameters *)

ParamNames ==
    {"rotate", "zoom", "flip", "brightness", "grayscale", "sepia", "invert",
     "4-color", "vibrance", "blur", "contrast", "balance", "hue", "effect"}

\* init_parameters: the value each variable is created with
Default ==
    [n \in ParamNames |->
        CASE n = "rotate"     -> ROTATE_DEFAULT
          [] n = "zoom"       -> ZOOM_DEFAULT
          [] n = "flip"       -> FLIP_OPTIONS[1]
          [] n = "brightness" -> BRIGHTNESS_DEFAULT
          [] n = "grayscale"  -> GRAYSCALE_DEFAULT
          [] n = "sepia"      -> SEPIA_DEFAULT
          [] n = "invert"     -> INVERT_DEFAULT
          [] n = "4-color"    -> FOUR_COLOR_DEFAULT
          [] n = "vibrance"   -> VIBRANCE_DEFAULT
          [] n = "blur"       -> BLUR_DEFAULT
          [] n = "contrast"   -> CONTRAST_DEFAULT
          [] n = "balance"    -> BALANCE_DEFAULT
          [] n = "hue"        -> HUE_DEFAULT
          [] n = "effect"     -> EFFECT_OPTIONS[1]]

\* the values the widgets of menu.py can write (sliders sampled at two
\* positions, switches, segmented button, drop-down)
Domain ==
    [n \in ParamNames |->
        CASE n = "rotate"     -> {0, 90}
          [] n = "zoom"       -> {0, 1, 2}
          [] n = "flip"       -> Range(FLIP_OPTIONS)
          [] n = "brightness" -> {1, 2}
          [] n = "grayscale"  -> BOOLEAN
          [] n = "sepia"      -> BOOLEAN
          [] n = "invert"     -> BOOLEAN
          [] n = "4-color"    -> BOOLEAN
          [] n = "vibrance"   -> {1, 0}
          [] n = "blur"       -> {0, 2}
          [] n = "contrast"   -> {0, 3}
          [] n = "balance"    -> {0, 2}
          [] n = "hue"        -> {0, 10}
          [] n = "effect"     -> Range(EFFECT_OPTIONS)]

Changed(p) == Cardinality({n \in ParamNames : p[n] # Default[n]})

-----------------------------------------------------------------------------
(* main.py: App.manipulate_image *)

\* the calls of manipulate_image in program order: method, parameter read
PassCalls ==
    << <<"rotate_image", "rotate">>,
       <<"zoom_image", "zoom">>,
       <<"flip_image", "flip">>,
       <<"apply_brightness", "brightness">>,
       <<"apply_vibrance", "vibrance">>,
       <<"apply_grayscale", "grayscale">>,
       <<"invert_colors", "invert">>,
       <<"apply_sepia", "sepia">>,
       <<"apply_4color_filter", "4-color">>,
       <<"blur_image", "blur">>,
       <<"change_contrast", "contrast">>,
       <<"change_balance", "balance">>,
       <<"change_hue", "hue">>,
       <<"apply_effect", "effect">> >>

\* manipulate_image without the try ... except around invert_colors
CaughtNothing(method, exc) == FALSE

\* only the invert_colors call is inside try ... except OSError, whose
\* handler shows a message box and lets the function go on
Caught(method, exc) == method = "invert_colors" /\ exc = "OSError"

NoRun == [ran |-> FALSE, manipulator |-> ImageManipulator(NoImage),
          calls |-> <<>>, error_shown |-> FALSE, at_invert |-> NoImage,
          result |-> NoImage]

\* lines 116-145 from call number i on; stops at the first exception that
\* is not caught.  calls lists the methods entered, at_invert is the
\* manipulator's image when invert_colors was called, result is App.image
\* as manipulate_image leaves it
RECURSIVE run_calls(_, _, _)
run_calls(run, p, i) ==
    IF i > Len(PassCalls) THEN run
    ELSE LET method == PassCalls[i][1]
             found == method \in ImageManipulatorMethods
             m1 == call_method(run.manipulator, method, p[PassCalls[i][2]])
             caught == Caught(method, m1.raised)
             run1 == [ran |-> TRUE,
                      manipulator |-> IF caught THEN ok(m1) ELSE m1,
                      calls |-> IF found THEN Append(run.calls, method)
                                ELSE run.calls,
                      error_shown |-> run.error_shown \/ caught,
                      at_invert |-> IF method = "invert_colors"
                                    THEN run.manipulator.used_image
                                    ELSE run.at_invert,
                      result |-> run.result]
         IN  IF run1.manipulator.raised # "none" THEN run1
             ELSE run_calls(run1, p, i + 1)

\* lines 114-145
run_pass(orig, p) ==
    run_calls([ran |-> TRUE, manipulator |-> ImageManipulator(orig),
               calls |-> <<>>, error_shown |-> FALSE, at_invert |-> NoImage,
               result |-> NoImage],
              p, 1)

\* manipulate_image storing the manipulator's image although a call raised
manipulate_image_stores_partial(st, orig) ==
    LET run == run_pass(orig, st.params)
        img == run.manipulator.used_image
    IN  [params |-> st.params,
         image |-> img,
         image_is_original |-> run.manipulator.same_object,
         tk_image |-> img,
         last_run |-> [run EXCEPT !.result = img]]

\* manipulate_image as a function of the application state st =
\* [params, image, image_is_original, tk_image, last_run]: line 113 makes
\* App.image the original; lines 148-149 are reached only when no call raised
manipulate_image(st, orig) ==
    LET run == run_pass(orig, st.params)
        done == run.manipulator.raised = "none"
        img == IF done THEN run.manipulator.used_image ELSE orig
    IN  [params |-> st.params,
         image |-> img,
         image_is_original |-> IF done THEN run.manipulator.same_object ELSE TRUE,
         tk_image |-> IF done THEN img ELSE st.tk_image,
         last_run |-> [run EXCEPT !.result = img]]

\* var.set(value): the trace installed by init_parameters runs
\* manipulate_image inside the write; an exception raised by the callback is
\* reported by tkinter and the write returns
trace_write(st, orig, name, value) ==
    manipulate_image([st EXCEPT !.params[name] = value], orig)

AppState ==
    [params |-> params, image |-> image, image_is_original |-> image_is_original,
     tk_image |-> tk_image, last_run |-> last_run]

Install(st, op) ==
    /\ params' = st.params
    /\ image' = st.image
    /\ image_is_original' = st.image_is_original
    /\ tk_image' = st.tk_image
    /\ last_run' = st.last_run
    /\ last_op' = [name |-> op, raised |-> st.last_run.manipulator.raised,
                   ext |-> "", quality |-> 0, keep |-> FALSE, optimize |-> FALSE,
                   frame |-> "", runs |-> 1]

-----------------------------------------------------------------------------
(* main.py, menu.py, panel.py: the handlers *)

\* InfoPanel.__init__(self, parent, panel_name, info_str, custom_height)
InfoPanelParameters == {"parent", "panel_name", "info_str", "custom_height"}
\* the keywords InfoFrame.__init__ passes to InfoPanel for 'Image Data'
InfoFrameKeywords == {"panel_name", "info_str", "custom_box_height"}

\* Menu(...): builds the five frames; an unknown keyword is a TypeError
Menu_init ==
    IF InfoFrameKeywords \subseteq InfoPanelParameters THEN "none" ELSE "TypeError"

Lower(f) ==
    CASE f = "JPEG" -> "jpeg" [] f = "PNG" -> "png" [] f = "GIF" -> "gif"
      [] OTHER -> f

\* a handler that saves nothing / a handler that calls Image.save; runs is
\* the number of times the handler ran manipulate_image, frame the menu frame
\* of a Revert button
Handler(name, exc) ==
    [name |-> name, raised |-> exc, ext |-> "", quality |-> 0, keep |-> FALSE,
     optimize |-> FALSE, frame |-> "", runs |-> 0]
Saver(name, exc, ext, quality, keep, optimize) ==
    [name |-> name, raised |-> exc, ext |-> ext, quality |-> quality,
     keep |-> keep, optimize |-> optimize, frame |-> "", runs |-> 0]

ThumbBoxes == {<<2, 2>>, <<200, 200>>}
Qualities == {100, 80}

\* App.import_image, from the 'Open Image' button of the import screen
import_image(file) ==
    /\ ui.import_shown
    /\ original' = file
    /\ image' = file
    /\ image_is_original' = TRUE
    /\ tk_image' = file
    /\ imported' = file
    /\ ui' = [import_shown |-> FALSE, output_shown |-> TRUE, menu_shown |-> TRUE,
              editor_menu |-> ui.editor_menu \/ Menu_init = "none"]
    /\ last_op' = Handler("import_image", Menu_init)
    /\ UNCHANGED <<params, last_run, stage_vars, clamp_vars, color_vars>>

\* a widget of the menu writes one parameter variable
write_var(name, value) ==
    /\ ui.menu_shown
    /\ Changed([params EXCEPT ![name] = value]) <= MaxChanged
    /\ Install(trace_write(AppState, original, name, value), "manipulate_image")
    /\ UNCHANGED <<ui, original, imported, stage_vars, clamp_vars, color_vars>>

\* the (variable, default) pairs each frame gives its RevertButton
RevertButtons ==
    [frame \in {"Position", "Color", "Effect"} |->
        CASE frame = "Position" ->
                <<<<"rotate", ROTATE_DEFAULT>>, <<"zoom", ZOOM_DEFAULT>>,
                  <<"flip", FLIP_OPTIONS[1]>>>>
          [] frame = "Color" ->
                <<<<"grayscale", GRAYSCALE_DEFAULT>>, <<"sepia", SEPIA_DEFAULT>>,
                  <<"invert", INVERT_DEFAULT>>, <<"4-color", FOUR_COLOR_DEFAULT>>,
                  <<"brightness", BRIGHTNESS_DEFAULT>>,
                  <<"vibrance", VIBRANCE_DEFAULT>>>>
          [] frame = "Effect" ->
                <<<<"effect", EFFECT_OPTIONS[1]>>, <<"blur", BLUR_DEFAULT>>,
                  <<"contrast", CONTRAST_DEFAULT>>, <<"balance", BALANCE_DEFAULT>>,
                  <<"hue", HUE_DEFAULT>>>>]

\* the loop of reset_vars from pair i on: each set() runs the trace, whose
\* exception tkinter reports without interrupting the loop
RECURSIVE set_each(_, _, _, _)
set_each(st, orig, button_args, i) ==
    IF i > Len(button_args) THEN st
    ELSE LET written == trace_write(st, orig, button_args[i][1],
                                    button_args[i][2])
         IN  set_each(written, orig, button_args, i + 1)

\* the state a Revert press leaves: one run of manipulate_image per pair
Reverted(st, frame) ==
    /\ params' = st.params
    /\ image' = st.image
    /\ image_is_original' = st.image_is_original
    /\ tk_image' = st.tk_image
    /\ last_run' = st.last_run
    /\ last_op' = [Handler("reset_vars", "none") EXCEPT
                      !.frame = frame, !.runs = Len(RevertButtons[frame])]

\* RevertButton.reset_vars, from the Revert button of a frame
reset_vars(frame) ==
    /\ ui.menu_shown
    /\ Reverted(set_each(AppState, original, RevertButtons[frame], 1), frame)
    /\ UNCHANGED <<ui, original, imported, stage_vars, clamp_vars, color_vars>>

\* App.save_thumbnail: 'copy' is the object App.image itself unless the
\* image is palette-indexed; thumbnail() resizes that object
save_thumbnail(size) ==
    /\ ui.menu_shown
    /\ LET in_place == image.mode # "P"
           cp == IF in_place THEN image ELSE convert(image, "RGB")
           thumb == thumbnail(cp, size)
           failed == ~JpegWritable(thumb)
       IN  /\ image' = IF in_place THEN thumb ELSE image
           /\ original' = IF in_place /\ image_is_original THEN thumb ELSE original
           /\ last_op' = Saver("save_thumbnail",
                               IF failed THEN "OSError" ELSE "none",
                               "jpg", 0, FALSE, FALSE)
    /\ UNCHANGED <<ui, image_is_original, tk_image, params, last_run, imported,
                   stage_vars, clamp_vars, color_vars>>

\* export_image replacing quality 100 by 'keep' whatever the format
export_image_keeps_any_format(extension, quality) ==
    /\ ui.menu_shown
    /\ LET OPTIMIZE == quality # 100
           keep == quality = 100
           failed == extension = "jpg" /\ ~JpegWritable(image)
       IN  last_op' = Saver("export_image",
                            IF failed THEN "OSError" ELSE "none",
                            extension, quality, keep, OPTIMIZE)
    /\ UNCHANGED <<ui, original, image, image_is_original, tk_image, params,
                   last_run, imported, stage_vars, clamp_vars, color_vars>>

\* App.export_image, from ExportButton.save: Image.save is given quality
\* 'keep' when keep is set, the number otherwise
export_image(extension, quality) ==
    /\ ui.menu_shown
    /\ LET OPTIMIZE == quality # 100
           IS_JPG == image.format # "" /\ Lower(image.format) \in {"jpg", "jpeg"}
           keep == quality = 100 /\ IS_JPG
           failed == extension = "jpg" /\ ~JpegWritable(image)
       IN  last_op' = Saver("export_image",
                            IF failed THEN "OSError" ELSE "none",
                            extension, quality, keep, OPTIMIZE)
    /\ UNCHANGED <<ui, original, image, image_is_original, tk_image, params,
                   last_run, imported, stage_vars, clamp_vars, color_vars>>

\* App.resize_image (a <Configure> event of the canvas) -> display_image
resize_image ==
    /\ ui.output_shown
    /\ tk_image' = image
    /\ last_op' = Handler("resize_image", "none")
    /\ UNCHANGED <<ui, original, image, image_is_original, params, last_run,
                   imported, stage_vars, clamp_vars, color_vars>>

\* App.close_editor, from the close button: lines 156-157, then
\* self.editor_menu, which exists only if import_image got past Menu(...)
close_editor ==
    /\ ui.output_shown
    /\ IF ui.editor_menu
       THEN /\ ui' = [import_shown |-> TRUE, output_shown |-> FALSE,
                      menu_shown |-> FALSE, editor_menu |-> TRUE]
            /\ last_op' = Handler("close_editor", "none")
       ELSE /\ ui' = [ui EXCEPT !.output_shown = FALSE]
            /\ last_op' = Handler("close_editor", "AttributeError")
    /\ UNCHANGED <<original, image, image_is_original, tk_image, params,
                   last_run, imported, stage_vars, clamp_vars, color_vars>>

-----------------------------------------------------------------------------
(* color_tools/hex_tools.py: clamp *)

\* a Python number is modelled as the rational num / den, den > 0
Q(n) == [num |-> n, den |-> 1]
Less(a, b) == a.num * b.den < b.num * a.den

\* int(x): the fractional part is dropped (truncation toward zero)
int(x) ==
    IF x.num >= 0 THEN x.num \div x.den ELSE -((-x.num) \div x.den)

\* clamp rounding down (floor) instead of dropping the fraction
clamp_floors(val, minimum, maximum) ==
    IF Less(val, Q(minimum)) THEN int(Q(minimum))
    ELSE IF Less(Q(maximum), val) THEN int(Q(maximum))
    ELSE val.num \div val.den

clamp(val, minimum, maximum) ==
    IF Less(val, Q(minimum)) THEN int(Q(minimum))
    ELSE IF Less(Q(maximum), val) THEN int(Q(maximum))
    ELSE int(val)

-----------------------------------------------------------------------------
(* color_tools/hex_tools.py: rgb_to_hex, colorscale                        *)
(* A Python string is modelled as the sequence of its characters.          *)

\* the digits the 'x' presentation type writes, by value
LowerDigits == <<"0", "1", "2", "3", "4", "5", "6", "7", "8", "9",
                 "a", "b", "c", "d", "e", "f">>
\* int(text, 16) reads these as well
UpperDigits == <<"0", "1", "2", "3", "4", "5", "6", "7", "8", "9",
                 "A", "B", "C", "D", "E", "F">>

Min(a, b) == IF a < b THEN a ELSE b

\* the value of one character read as a base-16 digit, -1 if it is none
digit16(c) ==
    IF \E i \in 1..16 : LowerDigits[i] = c
    THEN (CHOOSE i \in 1..16 : LowerDigits[i] = c) - 1
    ELSE IF \E i \in 1..16 : UpperDigits[i] = c
         THEN (CHOOSE i \in 1..16 : UpperDigits[i] = c) - 1
         ELSE -1

\* int(text, 16) raises ValueError unless text is a nonempty run of base-16
\* digits (signs, blanks, underscores and an 0x prefix are not drawn)
IsBase16(text) ==
    Len(text) > 0 /\ \A i \in 1..Len(text) : digit16(text[i]) >= 0

RECURSIVE int16(_)
int16(text) ==
    IF Len(text) = 0 THEN 0
    ELSE 16 * int16(SubSeq(text, 1, Len(text) - 1)) + digit16(text[Len(text)])

\* the digits of n >= 0 in base 16, most significant first
RECURSIVE hex(_)
hex(n) ==
    IF n < 16 THEN <<LowerDigits[n + 1]>>
    ELSE Append(hex(n \div 16), LowerDigits[(n % 16) + 1])

\* format spec 02x, for n >= 0: zero-padded to a width of at least 2
format_02x(n) == IF n < 16 THEN <<"0">> \o hex(n) ELSE hex(n)

\* text[i:j] with Python's clipping of j to the length
slice(text, i, j) == SubSeq(text, i + 1, Min(j, Len(text)))

\* str.strip(c): every leading and every trailing c removed
RECURSIVE lstrip(_, _)
lstrip(text, c) ==
    IF Len(text) > 0 /\ text[1] = c THEN lstrip(Tail(text), c) ELSE text
RECURSIVE rstrip(_, _)
rstrip(text, c) ==
    IF Len(text) > 0 /\ text[Len(text)] = c
    THEN rstrip(SubSeq(text, 1, Len(text) - 1), c) ELSE text
strip(text, c) == rstrip(lstrip(text, c), c)

\* rgb_to_hex with the channels written blue first
rgb_to_hex_bgr(r, g, b) ==
    <<"#">> \o format_02x(b) \o format_02x(g) \o format_02x(r)

rgb_to_hex(r, g, b) ==
    <<"#">> \o format_02x(r) \o format_02x(g) \o format_02x(b)

\* the product of an int and a Python number
Times(n, x) == [num |-> n * x.num, den |-> x.den]

returned(text) == [raised |-> "none", value |-> text]
raises(exc) == [raised |-> exc, value |-> <<>>]

\* colorscale without the clamp: the product is only truncated
colorscale_unclamped(hexstr, scale_factor) ==
    LET stripped == strip(hexstr, "#")
        rr == slice(stripped, 0, 2)
        gg == slice(stripped, 2, 4)
        bb == slice(stripped, 4, Len(stripped))
    IN  IF ~IsBase16(rr) \/ ~IsBase16(gg) \/ ~IsBase16(bb)
        THEN raises("ValueError")
        ELSE IF Less(scale_factor, Q(0)) \/ Len(stripped) # 6
             THEN returned(stripped)
             ELSE returned(<<"#">>
                    \o format_02x(int(Times(int16(rr), scale_factor)))
                    \o format_02x(int(Times(int16(gg), scale_factor)))
                    \o format_02x(int(Times(int16(bb), scale_factor))))

\* the three channels are parsed before the guard is evaluated, and the
\* guard returns the stripped string
colorscale(hexstr, scale_factor) ==
    LET stripped == strip(hexstr, "#")
        rr == slice(stripped, 0, 2)
        gg == slice(stripped, 2, 4)
        bb == slice(stripped, 4, Len(stripped))
    IN  IF ~IsBase16(rr) \/ ~IsBase16(gg) \/ ~IsBase16(bb)
        THEN raises("ValueError")
        ELSE IF Less(scale_factor, Q(0)) \/ Len(stripped) # 6
             THEN returned(stripped)
             ELSE returned(<<"#">>
                    \o format_02x(clamp(Times(int16(rr), scale_factor), 0, 255))
                    \o format_02x(clamp(Times(int16(gg), scale_factor), 0, 255))
                    \o format_02x(clamp(Times(int16(bb), scale_factor), 0, 255)))

-----------------------------------------------------------------------------
(* image_tools/manipulator.py: the sepia palette, pixel by pixel *)

BASE_COLOR == <<255, 240, 192>>

\* the loop of sepia_palette runs over range(SepiaLevels)
SepiaLevels == 255

\* sepia_palette(): for each i of the range, the three channels of
\* BASE_COLOR scaled by i // 255, in one flat list
sepia_palette ==
    [k \in 1..(3 * SepiaLevels) |->
        (BASE_COLOR[((k - 1) % 3) + 1] * ((k - 1) \div 3)) \div 255]

\* what a palette holds at an index that putpalette was given no data for:
\* zeros in current Pillow, the gray ramp in older versions
UnsetEntries(index) == { <<0, 0, 0>>, <<index, index, index>> }

\* Image.putpalette(palette) followed by convert("RGB"), for one pixel
palette_lookup(palette, index, unset) ==
    IF 3 * index + 3 <= Len(palette)
    THEN <<palette[3 * index + 1], palette[3 * index + 2], palette[3 * index + 3]>>
    ELSE unset

\* sepia_filter on a pixel whose gray level after convert("L") is gray
sepia_pixel(gray, unset) ==
    [gray |-> gray, done |-> TRUE, entries |-> Len(sepia_palette) \div 3,
     rgb |-> palette_lookup(sepia_palette, gray, unset)]

-----------------------------------------------------------------------------
(* panel.py: ColorsPanel                                                   *)
(* A colorgram color is a record r, g, b, proportion; the proportion is    *)
(* kept as the number of pixels of the color, which orders colors of one   *)
(* image as the fraction does.                                             *)

\* generate_palette keeps this many colors
PaletteSize == 14

\* c placed behind the colors of sorted_colors that do not come after it
insert(sorted_colors, c) ==
    LET k == Cardinality({i \in 1..Len(sorted_colors) :
                            sorted_colors[i].proportion <= c.proportion})
    IN  SubSeq(sorted_colors, 1, k) \o <<c>>
            \o SubSeq(sorted_colors, k + 1, Len(sorted_colors))

\* the colors left in the order of extraction
in_extraction_order(colors) == colors

\* sorted(colors, key=lambda color: color.proportion): ascending and stable
RECURSIVE sorted_by_proportion(_)
sorted_by_proportion(colors) ==
    IF Len(colors) = 0 THEN <<>>
    ELSE insert(sorted_by_proportion(SubSeq(colors, 1, Len(colors) - 1)),
                colors[Len(colors)])

\* a hover color scaled up instead of down
hover_color_doubled(color) == colorscale(color, Q(2))

\* draw_colors: the hover color of a swatch
hover_color(color) == colorscale(color, [num |-> 1, den |-> 2])

\* generate_palette, with the draw_colors call that ends it
generate_palette(colors) ==
    LET kept == slice(sorted_by_proportion(colors), 0, PaletteSize)
        hex_colors == [i \in 1..Len(kept) |->
                          rgb_to_hex(kept[i].r, kept[i].g, kept[i].b)]
    IN  [generated |-> TRUE,
         kept |-> kept,
         hex_colors |-> hex_colors,
         hover_colors |-> [i \in 1..Len(hex_colors) |-> hover_color(hex_colors[i])]]

-----------------------------------------------------------------------------
(* The application: initial state and next-state relation *)

NoCall == [method |-> "", at_default |-> FALSE, applied |-> 0]
NoClamp == [val |-> Q(0), minimum |-> 0, maximum |-> 0]
NoResult == [done |-> FALSE, value |-> 0]
NoHexCall == [fn |-> "", hexstr |-> <<>>, scale_factor |-> Q(0),
              r |-> 0, g |-> 0, b |-> 0]
NoHexResult == [done |-> FALSE, raised |-> "none", value |-> <<>>]
NoSepia == [gray |-> 0, done |-> FALSE, entries |-> 0, rgb |-> <<0, 0, 0>>]
NoSwatches == [generated |-> FALSE, kept |-> <<>>, hex_colors |-> <<>>,
               hover_colors |-> <<>>]

\* no color helper is running
ColorIdle ==
    /\ hex_args = NoHexCall
    /\ hex_result = NoHexResult
    /\ sepia = NoSepia
    /\ extracted = <<>>
    /\ swatches = NoSwatches

\* App.__init__
AppInit ==
    /\ ui = [import_shown |-> TRUE, output_shown |-> FALSE, menu_shown |-> FALSE,
             editor_menu |-> FALSE]
    /\ original = NoImage
    /\ image = NoImage
    /\ image_is_original = FALSE
    /\ tk_image = NoImage
    /\ params = Default
    /\ last_run = NoRun
    /\ last_op = Handler("__init__", "none")
    /\ imported = NoImage

Init ==
    /\ AppInit
    /\ manip = ImageManipulator(NoImage)
    /\ last_call = NoCall
    /\ clamp_args = NoClamp
    /\ clamp_result = NoResult
    /\ ColorIdle

Next ==
    \/ \E file \in Files : import_image(file)
    \/ \E name \in ParamNames : \E value \in Domain[name] : write_var(name, value)
    \/ \E size \in ThumbBoxes : save_thumbnail(size)
    \/ \E extension \in {"jpg", "png"} : \E quality \in Qualities :
          export_image(extension, quality)
    \/ resize_image
    \/ close_editor

Spec == Init /\ [][Next]_vars

\* the application with its Revert buttons: a press is the writes of
\* write_var made one after the other inside one handler, so it leads to
\* application states that Next reaches by those writes
NextRevert ==
    \/ Next
    \/ \E frame \in DOMAIN RevertButtons : reset_vars(frame)

SpecRevert == Init /\ [][NextRevert]_vars

-----------------------------------------------------------------------------
(* An ImageManipulator driven directly: any stage method, any argument of  *)
(* its control, in any order                                               *)

\* one call: result is the manipulator after it
Call(result, method, at_default) ==
    /\ at_default \/ last_call.applied < MaxOps
    /\ manip' = result
    /\ last_call' = [method |-> method, at_default |-> at_default,
                     applied |-> last_call.applied +
                        (IF result.used_image # manip.used_image THEN 1 ELSE 0)]
    /\ UNCHANGED <<app_vars, clamp_vars, color_vars>>

CallRotate ==
    \E a \in Domain["rotate"] :
        Call(rotate_image(manip, a), "rotate_image", a = ROTATE_DEFAULT)
CallZoom ==
    \E a \in Domain["zoom"] :
        Call(zoom_image(manip, a), "zoom_image", a = ZOOM_DEFAULT)
CallFlip ==
    \E a \in Domain["flip"] :
        Call(flip_image(manip, a), "flip_image", a = FLIP_OPTIONS[1])
CallBrightness ==
    \E a \in Domain["brightness"] :
        Call(apply_brightness(manip, a), "apply_brightness", a = BRIGHTNESS_DEFAULT)
CallVibrance ==
    \E a \in Domain["vibrance"] :
        Call(apply_vibrance(manip, a), "apply_vibrance", a = VIBRANCE_DEFAULT)
CallGrayscale ==
    \E a \in Domain["grayscale"] :
        Call(apply_grayscale(manip, a), "apply_grayscale", a = GRAYSCALE_DEFAULT)
CallInvert ==
    \E a \in Domain["invert"] :
        Call(invert_colors(manip, a), "invert_colors", a = INVERT_DEFAULT)
CallSepia ==
    \E a \in Domain["sepia"] :
        Call(apply_sepia(manip, a), "apply_sepia", a = SEPIA_DEFAULT)
Call4Color ==
    \E a \in Domain["4-color"] :
        Call(apply_4color_filter(manip, a), "apply_4color_filter",
             a = FOUR_COLOR_DEFAULT)
CallBlur ==
    \E a \in Domain["blur"] :
        Call(blur_image(manip, a), "blur_image", a = BLUR_DEFAULT)
CallContrast ==
    \E a \in Domain["contrast"] :
        Call(change_contrast(manip, a), "change_contrast", a = CONTRAST_DEFAULT)
CallBalance ==
    \E a \in Domain["balance"] :
        Call(change_balance(manip, a), "change_balance", a = BALANCE_DEFAULT)
CallEffect ==
    \E a \in Domain["effect"] :
        Call(apply_effect(manip, a), "apply_effect", a = EFFECT_OPTIONS[1])

InitStages ==
    /\ AppInit
    /\ \E file \in Files : manip = ImageManipulator(file)
    /\ last_call = NoCall
    /\ clamp_args = NoClamp
    /\ clamp_result = NoResult
    /\ ColorIdle

NextStages ==
    \/ CallRotate \/ CallZoom \/ CallFlip \/ CallBrightness \/ CallVibrance
    \/ CallGrayscale \/ CallInvert \/ CallSepia \/ Call4Color \/ CallBlur
    \/ CallContrast \/ CallBalance \/ CallEffect

SpecStages == InitStages /\ [][NextStages]_vars

-----------------------------------------------------------------------------
(* clamp applied to a number and a range *)

\* largest numerator magnitude, denominator and range bound drawn
MaxNum == 7
MaxDen == 3
MaxRange == 2

ClampValues ==
    {[num |-> n, den |-> d] : n \in -MaxNum..MaxNum, d \in 1..MaxDen}
ClampInputs ==
    {[val |-> v, minimum |-> lo, maximum |-> hi] :
        v \in ClampValues, lo \in -MaxRange..MaxRange, hi \in -MaxRange..MaxRange}
    \cup
    \* the default range of a color channel
    {[val |-> v, minimum |-> 0, maximum |-> 255] :
        v \in {Q(-5), Q(300), [num |-> 129, den |-> 10], Q(255), Q(0),
               [num |-> 2559, den |-> 10], [num |-> -1, den |-> 2]}}

InitClamp ==
    /\ AppInit
    /\ manip = ImageManipulator(NoImage)
    /\ last_call = NoCall
    /\ clamp_args \in {a \in ClampInputs : a.minimum <= a.maximum}
    /\ clamp_result = NoResult
    /\ ColorIdle

CallClamp ==
    /\ ~clamp_result.done
    /\ clamp_result' = [done |-> TRUE,
                        value |-> clamp(clamp_args.val, clamp_args.minimum,
                                        clamp_args.maximum)]
    /\ UNCHANGED <<app_vars, stage_vars, clamp_args, color_vars>>

NextClamp == CallClamp

SpecClamp == InitClamp /\ [][NextClamp]_vars

-----------------------------------------------------------------------------
(* rgb_to_hex and colorscale applied to drawn arguments *)

\* two-character channel texts, in both cases
ChannelTexts ==
    { <<"0", "0">>, <<"f", "f">>, <<"D", "F">>, <<"3", "C">>, <<"8", "0">> }

\* well-formed colors: every combination of the channel texts, and the
\* examples of the docstring of colorscale
ColorTexts ==
    { rr \o gg \o bb : rr \in ChannelTexts, gg \in ChannelTexts, bb \in ChannelTexts }
    \cup { <<"5", "2", "D", "2", "4", "F">>, <<"4", "F", "7", "5", "D", "2">>,
           <<"a", "b", "c", "1", "2", "3">>, <<"A", "B", "C", "1", "2", "3">> }

\* texts that are not six base-16 digits behind an optional leading '#'
MalformedTexts ==
    { <<>>, <<"#">>, <<"1", "2">>, <<"#", "1", "2", "3", "4", "5">>,
      <<"1", "2", "3", "4", "5", "6", "7">>,
      <<"#", "1", "2", "3", "4", "5", "6", "7">>,
      <<"#", "A", "B", "C", "1", "2", "G">>,
      <<"g", "g", "g", "g", "g", "g">>,
      <<"A", "B", "C", "1", "2", "3", "#">> }

ScaleFactors ==
    { Q(0), [num |-> 3, den |-> 10], [num |-> 1, den |-> 2], Q(1),
      [num |-> 8, den |-> 5], Q(2), Q(300) }
NegativeFactors == { Q(-1), [num |-> -1, den |-> 2] }

ColorscaleInputs ==
    { [fn |-> "colorscale", hexstr |-> prefix \o text, scale_factor |-> f,
       r |-> 0, g |-> 0, b |-> 0] :
        prefix \in {<<>>, <<"#">>}, text \in ColorTexts,
        f \in ScaleFactors \cup NegativeFactors }
    \cup
    { [fn |-> "colorscale", hexstr |-> text, scale_factor |-> f,
       r |-> 0, g |-> 0, b |-> 0] :
        text \in MalformedTexts, f \in {Q(1), [num |-> 1, den |-> 2], Q(-1)} }

\* channel values in the byte range and beyond it
ChannelValues == {0, 1, 15, 16, 128, 255, 256, 4095, 4096}

RgbToHexInputs ==
    { [fn |-> "rgb_to_hex", hexstr |-> <<>>, scale_factor |-> Q(0),
       r |-> r, g |-> g, b |-> b] :
        r \in ChannelValues, g \in ChannelValues, b \in ChannelValues }

InitHex ==
    /\ AppInit
    /\ manip = ImageManipulator(NoImage)
    /\ last_call = NoCall
    /\ clamp_args = NoClamp
    /\ clamp_result = NoResult
    /\ hex_args \in ColorscaleInputs \cup RgbToHexInputs
    /\ hex_result = NoHexResult
    /\ sepia = NoSepia
    /\ extracted = <<>>
    /\ swatches = NoSwatches

CallColorscale ==
    /\ ~hex_result.done
    /\ hex_args.fn = "colorscale"
    /\ LET out == colorscale(hex_args.hexstr, hex_args.scale_factor)
       IN  hex_result' = [done |-> TRUE, raised |-> out.raised, value |-> out.value]
    /\ UNCHANGED <<app_vars, stage_vars, clamp_vars, hex_args, sepia, extracted,
                   swatches>>

CallRgbToHex ==
    /\ ~hex_result.done
    /\ hex_args.fn = "rgb_to_hex"
    /\ hex_result' = [done |-> TRUE, raised |-> "none",
                      value |-> rgb_to_hex(hex_args.r, hex_args.g, hex_args.b)]
    /\ UNCHANGED <<app_vars, stage_vars, clamp_vars, hex_args, sepia, extracted,
                   swatches>>

NextHex == CallColorscale \/ CallRgbToHex

SpecHex == InitHex /\ [][NextHex]_vars

-----------------------------------------------------------------------------
(* The color panel on an image of drawn colors *)

\* at most this many colors are extracted from the image
MaxColors == 16
\* the color tables drawn
MaxShade == 3

\* color k of table shade: channels spread over 0..255
ColorRgb(k, shade) ==
    [r |-> (17 * (k - 1) + 3 * shade) % 256,
     g |-> (40 * k - 39 + 7 * shade) % 256,
     b |-> (256 - k - 11 * shade) % 256]

\* the number of pixels of color k: all equal for modulus 1, rising, falling
\* or mixed along the extraction order otherwise
PixelCount(k, step, offset, modulus) == 1 + ((step * k + offset) % modulus)

Extractions ==
    { [k \in 1..n |->
         [r |-> ColorRgb(k, shade).r, g |-> ColorRgb(k, shade).g,
          b |-> ColorRgb(k, shade).b,
          proportion |-> PixelCount(k, step, offset, modulus)]] :
        n \in 1..MaxColors, shade \in 0..MaxShade, step \in {1, 2, 16},
        offset \in {0, 1}, modulus \in {1, 3, 5, 17} }

InitPalette ==
    /\ AppInit
    /\ manip = ImageManipulator(NoImage)
    /\ last_call = NoCall
    /\ clamp_args = NoClamp
    /\ clamp_result = NoResult
    /\ hex_args = NoHexCall
    /\ hex_result = NoHexResult
    /\ sepia = NoSepia
    /\ extracted \in Extractions
    /\ swatches = NoSwatches

\* the button 'Extract colors from image'
GeneratePalette ==
    /\ swatches' = generate_palette(extracted)
    /\ UNCHANGED <<app_vars, stage_vars, clamp_vars, hex_vars, sepia, extracted>>

NextPalette == GeneratePalette

SpecPalette == InitPalette /\ [][NextPalette]_vars

-----------------------------------------------------------------------------
(* The sepia filter on a pixel of any gray level *)

InitSepia ==
    /\ AppInit
    /\ manip = ImageManipulator(NoImage)
    /\ last_call = NoCall
    /\ clamp_args = NoClamp
    /\ clamp_result = NoResult
    /\ hex_args = NoHexCall
    /\ hex_result = NoHexResult
    /\ \E gray \in 0..255 : sepia = [NoSepia EXCEPT !.gray = gray]
    /\ extracted = <<>>
    /\ swatches = NoSwatches

SepiaFilter ==
    /\ ~sepia.done
    /\ \E unset \in UnsetEntries(sepia.gray) :
          sepia' = sepia_pixel(sepia.gray, unset)
    /\ UNCHANGED <<app_vars, stage_vars, clamp_vars, hex_vars, extracted, swatches>>

NextSepia == SepiaFilter

SpecSepia == InitSepia /\ [][NextSepia]_vars

-----------------------------------------------------------------------------
(* Properties *)

\* the stages of section 4.2 of the specification, in pipeline order
StageOrder ==
    <<"rotate_image", "zoom_image", "flip_image", "apply_brightness",
      "apply_vibrance", "apply_grayscale", "invert_colors", "apply_sepia",
      "apply_4color_filter", "blur_image", "change_contrast", "change_balance",
      "change_hue", "apply_effect">>

ParamOf ==
    [i \in 1..Len(PassCalls) |-> PassCalls[i][2]]

\* stages i..j of the pipeline applied to manipulator m, stopping at a stage
\* that raises
RECURSIVE apply_range(_, _, _, _)
apply_range(m, p, i, j) ==
    IF i > j \/ m.raised # "none" THEN m
    ELSE apply_range(dispatch(m, StageOrder[i], p[ParamOf[i]]), p, i + 1, j)

\* the full stage pipeline on an original image
Pipeline(img, p) == apply_range(ImageManipulator(img), p, 1, Len(StageOrder))

\* the pixels of an image as displayed: a palette image is shown through
\* its palette
truecolor(img) == IF img.mode = "P" THEN convert(img, "RGB") ELSE img

\* the Invert stage was reached and failed in the most recent pass
InvertFailedInLastRun ==
    /\ last_run.ran
    /\ params["invert"]
    /\ "invert_colors" \in Range(last_run.calls)
    /\ ~InvertSupported(last_run.at_invert)

\* C1: in every reachable state the working image App.image is the result
\* of the full stage pipeline on the current original image with the current
\* parameter values (whenever that pipeline is defined on the image)
C1_WorkingImageIsPipelineResult ==
    (original # NoImage /\ Pipeline(original, params).raised = "none")
        => truecolor(image) = truecolor(Pipeline(original, params).used_image)

\* C2: right after a recomputation the working image is what one single
\* recomputation from the image as imported gives for the current (merged)
\* parameter set, whatever was exported in between
C2_NonCumulative ==
    last_op.name = "manipulate_image"
        => image = manipulate_image(AppState, imported).image

\* C3: no handler other than an import changes the original image, and
\* save_thumbnail changes neither the original nor the working image
C3_OriginalNeverMutated ==
    [][last_op'.name # "import_image"
         => /\ original' = original
            /\ (last_op'.name = "save_thumbnail" => image' = image)]_vars

\* C4: every run of manipulate_image reaches its final step, where the new
\* working image is stored and displayed (no call of the pass raises)
C4_RecomputationCompletes ==
    last_run.ran => last_run.manipulator.raised = "none"

\* C5: every pass invokes all 14 stages, once each, in the fixed order
C5_AllStagesInOrder ==
    last_run.ran => last_run.calls = StageOrder

\* C6: a stage method called with its default argument leaves the
\* manipulator's working image as it was and raises nothing, whatever the
\* image and whatever was called before
C6_DefaultArgumentIsIdentity ==
    [][last_call'.at_default
         => /\ manip'.used_image = manip.used_image
            /\ manip'.same_object = manip.same_object
            /\ manip'.raised = "none"]_vars

C6_DefaultCallAfterStages ==
    /\ last_call.at_default
    /\ last_call.applied > 0
    /\ manip.used_image.px # <<>>

\* C7: invert_colors(True) on an image whose format does not support
\* inversion raises OSError and leaves the working image as it was;
\* invert_colors(False) raises nothing
C7_InvertFailureIsOSError ==
    [][last_call'.method = "invert_colors"
         => /\ (~last_call'.at_default /\ ~InvertSupported(manip.used_image))
                   => (manip'.raised = "OSError"
                       /\ manip'.used_image = manip.used_image)
            /\ last_call'.at_default => manip'.raised = "none"]_vars

C7_InvertRejected ==
    /\ last_call.method = "invert_colors"
    /\ ~last_call.at_default
    /\ manip.raised = "OSError"
    /\ ~InvertSupported(manip.used_image)

\* C8 as stated: when Invert fails the pass aborts there, no later stage
\* is invoked in that pass
C8_InvertFailureAbortsPass ==
    InvertFailedInLastRun => last_run.calls = SubSeq(StageOrder, 1, 7)

\* C8 amended: when Invert fails, manipulate_image reports it and goes on:
\* the stages before Invert are not rolled back, Invert is skipped, and
\* Sepia and FourColorPosterize (and the stages after them, up to one that
\* raises) are invoked on the un-inverted image in the same pass
C8_InvertFailureIsSkipped ==
    (InvertFailedInLastRun /\ last_op.name = "manipulate_image")
        => /\ last_run.error_shown
           /\ Len(last_run.calls) >= 9
           /\ SubSeq(last_run.calls, 1, 9) = SubSeq(StageOrder, 1, 9)
           /\ last_run.at_invert
                = apply_range(ImageManipulator(original), params, 1, 6).used_image
           /\ last_run.manipulator.used_image
                = apply_range([used_image |-> last_run.at_invert,
                               same_object |-> FALSE, raised |-> "none"],
                              params, 8, 12).used_image

C8_SepiaAfterFailedInvert ==
    /\ InvertFailedInLastRun
    /\ last_op.name = "manipulate_image"
    /\ params["sepia"]
    /\ last_run.manipulator.used_image = sepia_filter(last_run.at_invert)

\* C9: a pass in which Invert fails replaces neither App.image nor the
\* image on the canvas
C9_FailedInvertKeepsDisplay ==
    [][(last_op'.name = "manipulate_image" /\ InvertFailedInLastRun')
         => /\ image' = image
            /\ image_is_original' = image_is_original
            /\ tk_image' = tk_image]_vars

C9_FailedInvertPassed ==
    /\ InvertFailedInLastRun
    /\ last_op.name = "manipulate_image"
    /\ last_run.error_shown
    /\ params["rotate"] # ROTATE_DEFAULT
    /\ image = imported
    /\ tk_image = imported

\* truncation of a rational, defined by its property: the integer of the
\* same sign whose magnitude is the whole part of the magnitude
TowardZero(x) ==
    CHOOSE t \in -Abs(x.num)..Abs(x.num) :
        /\ t * x.num >= 0
        /\ Abs(t) * x.den <= Abs(x.num)
        /\ Abs(x.num) < (Abs(t) + 1) * x.den

\* C10: clamp(value, min, max) with min <= max is the truncation of value
\* bounded to [min, max]: min below the range, max above it, the truncation
\* inside it, always an integer of [min, max]
C10_ClampTruncatesThenBounds ==
    clamp_result.done =>
        LET a == clamp_args
            t == TowardZero(a.val)
            bounded == IF t < a.minimum THEN a.minimum
                       ELSE IF t > a.maximum THEN a.maximum ELSE t
        IN  /\ clamp_result.value = bounded
            /\ clamp_result.value \in a.minimum..a.maximum
            /\ Less(a.val, Q(a.minimum)) => clamp_result.value = a.minimum
            /\ Less(Q(a.maximum), a.val) => clamp_result.value = a.maximum
            /\ (~Less(a.val, Q(a.minimum)) /\ ~Less(Q(a.maximum), a.val))
                   => clamp_result.value = t

C10_ClampTruncated ==
    /\ clamp_result.done
    /\ clamp_args = [val |-> [num |-> 129, den |-> 10], minimum |-> 0,
                     maximum |-> 255]
    /\ clamp_result.value = 12

-----------------------------------------------------------------------------
(* Hex colors *)

Base16Chars == Range(LowerDigits) \cup Range(UpperDigits)

\* text without one leading '#'
Unprefixed(text) ==
    IF Len(text) > 0 /\ text[1] = "#" THEN Tail(text) ELSE text

\* six base-16 digits, with or without a leading '#'
WellFormedColor(text) ==
    /\ Len(Unprefixed(text)) = 6
    /\ \A i \in 1..6 : Unprefixed(text)[i] \in Base16Chars

\* '#' followed by six lowercase base-16 digits
CanonicalColor(text) ==
    /\ Len(text) = 7
    /\ text[1] = "#"
    /\ \A i \in 2..7 : text[i] \in Range(LowerDigits)

\* channel k (1 red, 2 green, 3 blue) of a well-formed color
Channel(text, k) == int16(SubSeq(Unprefixed(text), 2 * k - 1, 2 * k))

\* c * f for f >= 0, fraction dropped, saturating at 255
Saturated(c, f) ==
    IF c * f.num >= 255 * f.den THEN 255 ELSE (c * f.num) \div f.den

ColorscaleDone == hex_result.done /\ hex_args.fn = "colorscale"
RgbToHexDone == hex_result.done /\ hex_args.fn = "rgb_to_hex"

C12_GuardReturnsInput ==
    (/\ ColorscaleDone
     /\ \/ Less(hex_args.scale_factor, Q(0))
        \/ ~WellFormedColor(hex_args.hexstr))
    => /\ hex_result.raised = "none"
       /\ hex_result.value = hex_args.hexstr

\* C13: for channels in 0..255, rgb_to_hex returns '#' and six lowercase
\* digits that decode back to the channels; nothing is clamped, so a channel
\* above 255 makes the text longer than 7 characters
C13_RgbToHexRoundTrip ==
    RgbToHexDone
    => /\ (hex_args.r \in 0..255 /\ hex_args.g \in 0..255 /\ hex_args.b \in 0..255)
            => /\ CanonicalColor(hex_result.value)
               /\ Channel(hex_result.value, 1) = hex_args.r
               /\ Channel(hex_result.value, 2) = hex_args.g
               /\ Channel(hex_result.value, 3) = hex_args.b
       /\ (hex_args.r > 255 \/ hex_args.g > 255 \/ hex_args.b > 255)
            => Len(hex_result.value) > 7

\* rgb_to_hex(255, 0, 128)
C13_Encoded ==
    /\ RgbToHexDone
    /\ hex_args.r = 255 /\ hex_args.g = 0 /\ hex_args.b = 128
    /\ hex_result.value = <<"#", "f", "f", "0", "0", "8", "0">>

-----------------------------------------------------------------------------
(* The palette *)

\* the extracted colors that generate_palette did not keep
Discarded == {c \in Range(extracted) : c \notin Range(swatches.kept)}

\* C14: the hover color of every swatch is a well-formed color equal to
\* rgb_to_hex of the halved channels, so no hover channel exceeds the
\* swatch's
C14_HoverIsHalved ==
    swatches.generated
    => \A i \in 1..Len(swatches.hex_colors) :
          LET c == swatches.kept[i]
              hover == swatches.hover_colors[i]
          IN  /\ hover.raised = "none"
              /\ CanonicalColor(hover.value)
              /\ hover.value = rgb_to_hex(c.r \div 2, c.g \div 2, c.b \div 2)
              /\ \A k \in 1..3 :
                    Channel(hover.value, k) <= Channel(swatches.hex_colors[i], k)

\* a swatch with an odd channel, drawn with a darker hover color
C14_OddChannelHalved ==
    /\ swatches.generated
    /\ \E i \in 1..Len(swatches.hex_colors) :
          /\ swatches.kept[i].r % 2 = 1
          /\ swatches.kept[i].r = 255
          /\ Channel(swatches.hover_colors[i].value, 1) = 127

\* C16: generate_palette keeps the most frequent colors: every kept color
\* has a proportion at least that of every discarded color
C16_KeepsMostFrequent ==
    swatches.generated
    => \A c \in Range(swatches.kept) : \A d \in Discarded :
          c.proportion >= d.proportion

\* C17: after generate_palette, hex_colors holds min(14, n) colors of the
\* n extracted, in ascending order of proportion
C17_PaletteSizeAndOrder ==
    swatches.generated
    => /\ Len(swatches.hex_colors) <= 14
       /\ Len(swatches.hex_colors) = Min(14, Len(extracted))
       /\ Len(swatches.kept) = Len(swatches.hex_colors)
       /\ \A i \in 1..Len(swatches.kept) :
             /\ swatches.kept[i] \in Range(extracted)
             /\ swatches.hex_colors[i] =
                   rgb_to_hex(swatches.kept[i].r, swatches.kept[i].g,
                              swatches.kept[i].b)
       /\ \A i, j \in 1..Len(swatches.kept) :
             i < j => swatches.kept[i].proportion <= swatches.kept[j].proportion

\* more than 14 colors of different proportions were extracted
C17_PaletteCut ==
    /\ swatches.generated
    /\ Len(extracted) > 14
    /\ Len(swatches.hex_colors) = 14
    /\ swatches.kept[1].proportion < swatches.kept[14].proportion
    /\ extracted[1].proportion > extracted[2].proportion

-----------------------------------------------------------------------------
(* The sepia palette *)

\* the entry the palette formula gives gray level i
SepiaEntry(i) == <<(255 * i) \div 255, (240 * i) \div 255, (192 * i) \div 255>>

\* C15: the sepia palette has 256 entries, the pixel of every gray level
\* 0..255 is remapped to the entry of the formula, and the entries do not
\* decrease with the gray level
C15_SepiaPaletteCoversEveryLevel ==
    sepia.done
    => /\ sepia.entries = 256
       /\ sepia.rgb = SepiaEntry(sepia.gray)
       /\ \A c \in 1..3 :
             sepia.gray > 0 => SepiaEntry(sepia.gray - 1)[c] <= sepia.rgb[c]

-----------------------------------------------------------------------------
(* Zoom *)

\* the border of the crop that produced img
BorderOf(img) == img.px[Len(img.px)].n

ZoomCalled == last_call.method = "zoom_image" /\ ~last_call.at_default

\* C18: a Zoom call with border b on a w x h image yields an image of
\* w - 2b x h - 2b, and the working image has a positive width and height in
\* every reachable state
C18_ZoomShrinksByBorder ==
    /\ [](manip.used_image.width > 0 /\ manip.used_image.height > 0)
    /\ [][ZoomCalled'
            => /\ manip'.raised = "none"
               /\ manip'.used_image.px # <<>>
               /\ manip'.used_image.px[Len(manip'.used_image.px)].op = "crop"
               /\ manip'.used_image.width =
                     manip.used_image.width - 2 * BorderOf(manip'.used_image)
               /\ manip'.used_image.height =
                     manip.used_image.height - 2 * BorderOf(manip'.used_image)]_vars

-----------------------------------------------------------------------------
(* Export *)

Exported == last_op.name = "export_image"

\* C19: on export, quality 100 is replaced by 'keep' exactly when the
\* imported file is a JPEG, whatever parameters were changed since import;
\* otherwise the number is passed on; optimize is set exactly when the
\* quality is not 100
C19_KeepExactlyForJpegSource ==
    Exported
    => /\ last_op.keep <=> (last_op.quality = 100 /\ imported.format = "JPEG")
       /\ last_op.quality \in Qualities
       /\ last_op.optimize <=> (last_op.quality # 100)

\* a JPEG exported at quality 100 after a recomputation with a parameter
\* away from its default
C19_KeptAfterParameterChange ==
    /\ Exported
    /\ last_op.keep
    /\ last_run.ran
    /\ params # Default
    /\ imported.format = "JPEG"

-----------------------------------------------------------------------------
(* Determinism *)

\* C20: two recomputations of the same imported image under the same
\* parameter values leave the same working image, whatever was written,
\* exported or saved as a thumbnail before each of them
C20_RecomputationIsDeterministic ==
    [][(/\ last_op'.name = "manipulate_image"
        /\ last_run.ran
        /\ imported' = imported
        /\ params' = params)
       => last_run'.result = last_run.result]_vars

-----------------------------------------------------------------------------
(* Revert *)

\* the parameters of each frame, as init_parameters groups them
FrameVars ==
    [frame \in {"Position", "Color", "Effect"} |->
        CASE frame = "Position" -> {"rotate", "zoom", "flip"}
          [] frame = "Color" -> {"brightness", "grayscale", "sepia", "invert",
                                 "4-color", "vibrance"}
          [] frame = "Effect" -> {"blur", "contrast", "balance", "hue", "effect"}]

\* C21: Revert in a frame sets every parameter of the frame to its default
\* and leaves the other frames' parameters alone; each of the k writes runs
\* one recomputation, and afterwards the displayed image is the pipeline
\* result for the resulting parameters
C21_RevertResetsFrame ==
    [][last_op'.name = "reset_vars"
        => LET mine == FrameVars[last_op'.frame]
           IN  /\ \A n \in mine : params'[n] = Default[n]
               /\ \A n \in ParamNames \ mine : params'[n] = params[n]
               /\ last_op'.runs = Cardinality(mine)
               /\ last_run'.ran
               /\ Pipeline(original', params').raised = "none"
                    => truecolor(tk_image') =
                          truecolor(Pipeline(original', params').used_image)]_vars

-----------------------------------------------------------------------------
(* Pixel formats within a pass *)

\* the manipulator as call j of the pass finds it, started as m before call i
RECURSIVE handed(_, _, _, _)
handed(m, p, i, j) ==
    IF i >= j THEN m
    ELSE LET m1 == call_method(m, PassCalls[i][1], p[PassCalls[i][2]])
         IN  handed(IF Caught(PassCalls[i][1], m1.raised) THEN ok(m1) ELSE m1,
                    p, i + 1, j)

\* the stages that reject a palette-indexed image
FormatSensitive ==
    {"blur_image", "change_contrast", "change_balance", "apply_effect"}

\* C22: in a recomputation pass the constructor's image is not
\* palette-indexed, no stage that is entered is handed a palette-indexed
\* image, and no stage other than Invert fails on the pixel format
C22_NoPaletteImageInPass ==
    [][last_op'.name = "manipulate_image"
        => /\ ImageManipulator(original').used_image.mode # "P"
           /\ original'.mode # "P"
                => ImageManipulator(original').used_image = original'
           /\ \A j \in 1..Len(last_run'.calls) :
                 handed(ImageManipulator(original'), params', 1, j).used_image.mode
                    # "P"
           /\ ~(/\ last_run'.manipulator.raised = "ValueError"
                /\ last_run'.calls[Len(last_run'.calls)] \in FormatSensitive)]_vars

-----------------------------------------------------------------------------
(* Session lifecycle *)

\* the editing state: canvas and menu on screen, App.editor_menu assigned
Editing ==
    ui.output_shown /\ ui.menu_shown /\ ui.editor_menu /\ ~ui.import_shown

\* the import state: only the import screen, from which import_image can run
Importing ==
    ui.import_shown /\ ~ui.output_shown /\ ~ui.menu_shown

\* C23: import_image completes and leaves the application editing the
\* imported image, with the editor menu registered; close_editor completes
\* and brings back the import state, from which the next import replaces
\* the original
C23_SessionLifecycle ==
    /\ last_op.name = "import_image"
          => /\ last_op.raised = "none"
             /\ Editing
             /\ original = imported /\ original \in Files
    /\ last_op.name = "close_editor"
          => /\ last_op.raised = "none"
             /\ Importing

====
